---- MODULE Spec2Model ----
(***************************************************************************)
(* A model of the FastAPI/Kubernetes monitoring system:                    *)
(*   - src/main.py: main and run_monitoring_cycle (the polling loop),      *)
(*   - src/api_monitor/monitor.py: ApiMonitor (retry-with-sleep),          *)
(*   - src/analysis/resource_analyzer.py: ResourceAnalyzer (unit parsing,  *)
(*     threshold classification, percentage, report templates).            *)
(* Strings the code parses are sequences of one-character strings, so that *)
(* endswith, slicing, int() and float() are computed as Python computes    *)
(* them.                                                                   *)
(***************************************************************************)
EXTENDS Integers, Sequences, FiniteSets, TLC

(***************************************************************************)
(* Bounds of the model.                                                    *)
(***************************************************************************)
\* largest integer d written before a unit suffix ("dn", "dMi", ...)
MaxD == 26
\* largest whole number of cores, and of G units, in a quantity
MaxCores == 1
\* fractional core counts 0.f: most digits after the point, and largest f
MaxFracDigits == 4
MaxFrac == 400
\* how far around a threshold the usages fed to the classifier go
MaxDelta == 2
\* the arguments of the direct calls of _check_resource_status
MaxUsage == 5
MaxThreshold == 3
\* the pod_metrics lists handed to analyze_resource_usage
MaxPods == 2
MaxContainers == 2
\* the configurations main is started with
MaxRetries == 2
MaxEndpoints == 2
MaxInterval == 2
\* the seconds the clock runs for
MaxTime == 4

\* how many items a response of the metrics API has at most
MaxItems == 2
\* random.randint draws MaxDraws + 1 evenly spaced values of its range
MaxDraws == 2

(***************************************************************************)
(* Python values that are not numbers.                                     *)
(***************************************************************************)
None == "None"
ValueError == "ValueError"

(***************************************************************************)
(* Strings.                                                                *)
(***************************************************************************)
DigitChars == <<"0", "1", "2", "3", "4", "5", "6", "7", "8", "9">>

IsDigit(c) == \E i \in 1..10 : DigitChars[i] = c

DigitVal(c) == (CHOOSE i \in 1..10 : DigitChars[i] = c) - 1

\* str(d) of a non-negative integer, as the f-strings and the metrics API write it
Fmt(d) ==
    LET n == IF d = 0 THEN 1 ELSE Cardinality({k \in 0..9 : 10^k <= d})
    IN  [i \in 1..n |-> DigitChars[((d \div 10^(n - i)) % 10) + 1]]

\* s.endswith(suffix)
EndsWith(s, suffix) ==
    /\ Len(s) >= Len(suffix)
    /\ SubSeq(s, Len(s) - Len(suffix) + 1, Len(s)) = suffix

\* s[:-n]
DropLast(s, n) == SubSeq(s, 1, Len(s) - n)

AllDigits(s) == Len(s) > 0 /\ \A i \in 1..Len(s) : IsDigit(s[i])

RECURSIVE DigitsValue(_)
DigitsValue(s) ==
    IF s = <<>> THEN 0
    ELSE IF Len(s) = 1 THEN DigitVal(s[1])
    ELSE LET h == Len(s) \div 2
         IN  DigitsValue(SubSeq(s, 1, h)) * 10^(Len(s) - h)
                 + DigitsValue(SubSeq(s, h + 1, Len(s)))

\* the values a Python call produces: a returned number or a raised exception
Return(v) == [exc |-> None, value |-> v]

Raise(e) == [exc |-> e, value |-> 0]

\* the strings int(s) accepts: an optional sign followed by decimal digits
IsIntLiteral(s) ==
    \/ AllDigits(s)
    \/ Len(s) > 1 /\ s[1] \in {"-", "+"} /\ AllDigits(Tail(s))

\* int(s)
PyInt(s) ==
    IF ~IsIntLiteral(s) THEN Raise(ValueError)
    ELSE IF s[1] = "-" THEN Return(0 - DigitsValue(Tail(s)))
    ELSE IF s[1] = "+" THEN Return(DigitsValue(Tail(s)))
    ELSE Return(DigitsValue(s))

\* int(s) * factor, the ValueError of int(s) propagating
Scaled(s, factor) ==
    IF PyInt(s).exc # None THEN PyInt(s) ELSE Return(PyInt(s).value * factor)

(***************************************************************************)
(* IEEE-754 double precision, as far as _parse_cpu_value needs it.  A      *)
(* positive double is [m, e]: m its 53-bit significand, most significant   *)
(* bit first, and the value is m * 2^e.  Rounding is to nearest, ties to   *)
(* even.                                                                   *)
(***************************************************************************)
SignificandBits == 53

FloatZero == [m |-> <<>>, e |-> 0]

\* the bits of n < 2^31, most significant first; none for 0
BitLength(n) == Cardinality({l \in 0..30 : 2^l <= n})

BitsOf(n) == [i \in 1..BitLength(n) |-> (n \div 2^(BitLength(n) - i)) % 2]

\* the number a bit string of at most 31 bits stands for
RECURSIVE BitsValue(_)
BitsValue(b) ==
    IF b = <<>> THEN 0
    ELSE IF Len(b) = 1 THEN b[1]
    ELSE LET h == Len(b) \div 2
         IN  BitsValue(SubSeq(b, 1, h)) * 2^(Len(b) - h)
                 + BitsValue(SubSeq(b, h + 1, Len(b)))

\* a bit string without its leading zeros
StripZeros(b) ==
    IF \A i \in 1..Len(b) : b[i] = 0 THEN <<>>
    ELSE LET first == CHOOSE i \in 1..Len(b) :
                          b[i] = 1 /\ \A j \in 1..(i - 1) : b[j] = 0
         IN  SubSeq(b, first, Len(b))

\* b + 1 on a bit string of fixed length; an all-ones string carries out
Increment(b) ==
    LET zeros == {i \in 1..Len(b) : b[i] = 0}
        last  == IF zeros = {} THEN 0
                 ELSE CHOOSE i \in zeros : \A j \in zeros : j <= i
    IN  [i \in 1..Len(b) |-> IF i < last THEN b[i] ELSE IF i = last THEN 1 ELSE 0]

AllOnes(b) == \A i \in 1..Len(b) : b[i] = 1

\* round a significand of more than 53 bits (the rest is `sticky`) to 53 bits
RoundBits(b, e, sticky) ==
    IF Len(b) <= SignificandBits THEN [m |-> b, e |-> e]
    ELSE LET m     == SubSeq(b, 1, SignificandBits)
             rest  == SubSeq(b, SignificandBits + 1, Len(b))
             guard == rest[1]
             low   == sticky \/ \E i \in 2..Len(rest) : rest[i] = 1
             up    == guard = 1 /\ (low \/ m[SignificandBits] = 1)
             e2    == e + Len(rest)
         IN  IF ~up THEN [m |-> m, e |-> e2]
             ELSE IF AllOnes(m)
                  THEN [m |-> <<1>> \o [i \in 1..(SignificandBits - 1) |-> 0], e |-> e2 + 1]
                  ELSE [m |-> Increment(m), e |-> e2]

\* what is left of r / d (r < d < 2^20) after k groups of 11 binary places
RECURSIVE Remainder(_, _, _)
Remainder(r, d, k) == IF k = 0 THEN r ELSE (Remainder(r, d, k - 1) * 2048) % d

\* the first 77 binary places of r / d, and what is left after them: more
\* places than a significand has, however many leading zeros r / d has
Expand(r, d) ==
    [b |-> [i \in 1..77 |->
               LET q == (Remainder(r, d, (i - 1) \div 11) * 2048) \div d
               IN  (q \div 2^(10 - ((i - 1) % 11))) % 2],
     r |-> Remainder(r, d, 7),
     f |-> 77]

\* the double nearest to n / d, for integers n >= 0 and d > 0
FloatDiv(n, d) ==
    IF n = 0 THEN FloatZero
    ELSE LET x == Expand(n % d, d)
         IN  RoundBits(StripZeros(BitsOf(n \div d) \o x.b), 0 - x.f, x.r # 0)

\* the 13-bit groups of a bit string of at most 13 * count bits, lowest first
Limbs(b, count) ==
    LET padded == [i \in 1..(13 * count - Len(b)) |-> 0] \o b
    IN  [k \in 1..count |->
            BitsValue(SubSeq(padded, 13 * (count - k) + 1, 13 * (count - k + 1)))]

\* the 13-bit groups of an integer c < 2^31, lowest first
LimbsOf(c) == [k \in 1..3 |-> (c \div 2^(13 * (k - 1))) % 8192]

\* long multiplication: the products that fall in column k (from 0), and the
\* carry that comes into it
ColumnSum(ml, cl, k) ==
    LET term(j) == IF k - j >= 0 /\ k - j < Len(ml) THEN ml[k - j + 1] * cl[j + 1]
                   ELSE 0
    IN  term(0) + term(1) + term(2)

RECURSIVE CarryInto(_, _, _)
CarryInto(ml, cl, k) ==
    IF k = 0 THEN 0
    ELSE (ColumnSum(ml, cl, k - 1) + CarryInto(ml, cl, k - 1)) \div 8192

\* the bits of m * c, most significant first, for a significand m and an
\* integer 0 < c < 2^31
TimesBits(m, c) ==
    LET ml == Limbs(m, 5)
        cl == LimbsOf(c)
        digit == [k \in 0..7 |-> (ColumnSum(ml, cl, k) + CarryInto(ml, cl, k)) % 8192]
    IN  StripZeros([i \in 1..104 |->
                       (digit[(104 - i) \div 13] \div 2^((104 - i) % 13)) % 2])

\* x * c in double arithmetic, c an integer a double represents exactly
FloatTimes(x, c) ==
    IF x.m = <<>> THEN FloatZero
    ELSE RoundBits(TimesBits(x.m, c), x.e, FALSE)

\* int(x): truncation toward zero
FloatTrunc(x) ==
    IF x.m = <<>> \/ Len(x.m) + x.e <= 0 THEN 0
    ELSE BitsValue(SubSeq(x.m, 1, Len(x.m) + x.e))

Pow10(k) == 10^k

IndexOfDot(s) == IF \E i \in 1..Len(s) : s[i] = "."
                 THEN CHOOSE i \in 1..Len(s) : s[i] = "." /\ \A j \in 1..(i - 1) : s[j] # "."
                 ELSE 0

\* the strings float(s) accepts, among those the model feeds it: the decimal
\* literals "digits", "digits.", ".digits" and "digits.digits"
IsFloatLiteral(s) ==
    LET p == IndexOfDot(s)
    IN  IF p = 0 THEN AllDigits(s)
        ELSE LET whole == SubSeq(s, 1, p - 1)
                 frac  == SubSeq(s, p + 1, Len(s))
             IN  /\ whole = <<>> \/ AllDigits(whole)
                 /\ frac = <<>> \/ AllDigits(frac)
                 /\ Len(whole) + Len(frac) > 0

\* float(s) of a decimal literal: the double nearest to its value
PyFloat(s) ==
    LET p == IndexOfDot(s)
    IN  IF p = 0 THEN FloatDiv(DigitsValue(s), 1)
        ELSE FloatDiv(DigitsValue(SubSeq(s, 1, p - 1) \o SubSeq(s, p + 1, Len(s))),
                      Pow10(Len(s) - p))

(***************************************************************************)
(* ResourceAnalyzer: unit parsing.                                         *)
(***************************************************************************)
\* _parse_cpu_value: a Kubernetes CPU quantity to nanocores
ParseCpuValue(cpu_str) ==
    IF cpu_str = <<>> THEN Return(0)
    ELSE IF EndsWith(cpu_str, <<"n">>) THEN Scaled(DropLast(cpu_str, 1), 1)
    ELSE IF EndsWith(cpu_str, <<"u">>) THEN Scaled(DropLast(cpu_str, 1), 1000)
    ELSE IF EndsWith(cpu_str, <<"m">>) THEN Scaled(DropLast(cpu_str, 1), 1000000)
    ELSE IF ~IsFloatLiteral(cpu_str) THEN Raise(ValueError)
    ELSE Return(FloatTrunc(FloatTimes(PyFloat(cpu_str), 1000000000)))


\* a parser that tests the decimal suffixes by their first letter, before the
\* binary ones
ParseMemoryValueDecimalFirst(memory_str) ==
    IF memory_str = <<>> THEN Return(0)
    ELSE IF EndsWith(memory_str, <<"K">>) \/ EndsWith(memory_str, <<"K", "i">>)
         THEN Scaled(SelectSeq(memory_str, IsDigit), 1000)
    ELSE IF EndsWith(memory_str, <<"M">>) \/ EndsWith(memory_str, <<"M", "i">>)
         THEN Scaled(SelectSeq(memory_str, IsDigit), 1000 * 1000)
    ELSE IF EndsWith(memory_str, <<"G">>) \/ EndsWith(memory_str, <<"G", "i">>)
         THEN Scaled(SelectSeq(memory_str, IsDigit), 1000 * 1000 * 1000)
    ELSE IF EndsWith(memory_str, <<"k">>) THEN Scaled(DropLast(memory_str, 1), 1000)
    ELSE IF EndsWith(memory_str, <<"m">>) THEN Scaled(DropLast(memory_str, 1), 1000 * 1000)
    ELSE IF EndsWith(memory_str, <<"g">>)
         THEN Scaled(DropLast(memory_str, 1), 1000 * 1000 * 1000)
    ELSE PyInt(memory_str)

\* _parse_memory_value: a Kubernetes memory quantity to bytes
ParseMemoryValue(memory_str) ==
    IF memory_str = <<>> THEN Return(0)
    ELSE IF EndsWith(memory_str, <<"K", "i">>)
         THEN Scaled(DropLast(memory_str, 2), 1024)
    ELSE IF EndsWith(memory_str, <<"M", "i">>)
         THEN Scaled(DropLast(memory_str, 2), 1024 * 1024)
    ELSE IF EndsWith(memory_str, <<"G", "i">>)
         THEN Scaled(DropLast(memory_str, 2), 1024 * 1024 * 1024)
    ELSE IF EndsWith(memory_str, <<"K">>) \/ EndsWith(memory_str, <<"k">>)
         THEN Scaled(DropLast(memory_str, 1), 1000)
    ELSE IF EndsWith(memory_str, <<"M">>) \/ EndsWith(memory_str, <<"m">>)
         THEN Scaled(DropLast(memory_str, 1), 1000 * 1000)
    ELSE IF EndsWith(memory_str, <<"G">>) \/ EndsWith(memory_str, <<"g">>)
         THEN Scaled(DropLast(memory_str, 1), 1000 * 1000 * 1000)
    ELSE PyInt(memory_str)

(***************************************************************************)
(* ResourceAnalyzer.__init__: the built-in thresholds.                     *)
(***************************************************************************)
CpuHigh == 20000000
CpuLow == 5000000
CpuRequest == 12000000
CpuLimit == 25000000
MemoryHigh == 25 * 1024 * 1024
MemoryLow == 10 * 1024 * 1024
MemoryRequest == 20 * 1024 * 1024
MemoryLimit == 40 * 1024 * 1024

thresholds ==
    [cpu    |-> [high |-> CpuHigh, low |-> CpuLow,
                 request |-> CpuRequest, limit |-> CpuLimit],
     memory |-> [high |-> MemoryHigh, low |-> MemoryLow,
                 request |-> MemoryRequest, limit |-> MemoryLimit]]

(***************************************************************************)
(* ResourceAnalyzer._check_resource_status.                                *)
(***************************************************************************)
\* (usage / request) * 100 if request > 0 else 0.  The value is kept as the
\* exact rational whole + num / den (0 <= num < den); the double the code
\* holds is this value rounded (twice), which no status depends on.
Utilization(usage, request) ==
    IF request > 0
    THEN LET r == (usage % request) * 100
         IN  [whole |-> (usage \div request) * 100 + r \div request,
              num   |-> r % request,
              den   |-> request]
    ELSE [whole |-> 0, num |-> 0, den |-> 1]


\* a classifier with strict comparisons
StatusOfStrict(usage, high_threshold, low_threshold) ==
    IF usage > high_threshold THEN "OVERFLOW"
    ELSE IF usage < low_threshold THEN "UNDERFLOW"
    ELSE "NORMAL"

\* the if/elif/else of lines 146-171: which status a usage gets
StatusOf(usage, high_threshold, low_threshold) ==
    IF usage >= high_threshold THEN "OVERFLOW"
    ELSE IF usage <= low_threshold THEN "UNDERFLOW"
    ELSE "NORMAL"

\* the analysis text of a status, kept as its opening words and the numbers it
\* quotes: the usage and, for the two alerts, the threshold crossed
AnalysisText(status, resource_type, usage, high_threshold, low_threshold) ==
    IF status = "OVERFLOW"
    THEN [text |-> "HIGH USAGE DETECTED", resource |-> resource_type,
          usage |-> usage, quoted |-> high_threshold]
    ELSE IF status = "UNDERFLOW"
    THEN [text |-> "LOW USAGE DETECTED", resource |-> resource_type,
          usage |-> usage, quoted |-> low_threshold]
    ELSE [text |-> "NORMAL USAGE", resource |-> resource_type,
          usage |-> usage, quoted |-> 0]


\* a percentage taken of the limit
CheckResourceStatusOfLimit(resource_type, usage, high_threshold, low_threshold, request, limit) ==
    LET status == StatusOf(usage, high_threshold, low_threshold)
    IN  [status |-> status,
         utilization_percentage |-> Utilization(usage, limit),
         analysis |-> AnalysisText(status, resource_type, usage,
                                   high_threshold, low_threshold)]

\* the (status, utilization_percentage, analysis) tuple
CheckResourceStatus(resource_type, usage, high_threshold, low_threshold, request, limit) ==
    LET utilization_percentage == Utilization(usage, request)
        status == StatusOf(usage, high_threshold, low_threshold)
    IN  [status |-> status,
         utilization_percentage |-> utilization_percentage,
         analysis |-> AnalysisText(status, resource_type, usage,
                                   high_threshold, low_threshold)]

(***************************************************************************)
(* ResourceAnalyzer._generate_llm_response: the report is kept as its      *)
(* headline and the order in which it quotes the two analyses.             *)
(***************************************************************************)

\* a chain that looks for UNDERFLOW before OVERFLOW
HeadlineUnderflowFirst(cpu_status, memory_status) ==
    IF cpu_status = "UNDERFLOW" /\ memory_status = "UNDERFLOW"
    THEN "RESOURCE UNDERUTILIZATION NOTICE"
    ELSE IF cpu_status = "UNDERFLOW" THEN "CPU UNDERUTILIZATION NOTICE"
    ELSE IF memory_status = "UNDERFLOW" THEN "MEMORY UNDERUTILIZATION NOTICE"
    ELSE IF cpu_status = "OVERFLOW" /\ memory_status = "OVERFLOW"
    THEN "CRITICAL RESOURCE ALERT"
    ELSE IF cpu_status = "OVERFLOW" THEN "CPU USAGE ALERT"
    ELSE IF memory_status = "OVERFLOW" THEN "MEMORY USAGE ALERT"
    ELSE "HEALTHY RESOURCE UTILIZATION"

\* the template the if/elif chain of lines 195-250 selects
Headline(cpu_status, memory_status) ==
    IF cpu_status = "OVERFLOW" /\ memory_status = "OVERFLOW"
    THEN "CRITICAL RESOURCE ALERT"
    ELSE IF cpu_status = "OVERFLOW" THEN "CPU USAGE ALERT"
    ELSE IF memory_status = "OVERFLOW" THEN "MEMORY USAGE ALERT"
    ELSE IF cpu_status = "UNDERFLOW" /\ memory_status = "UNDERFLOW"
    THEN "RESOURCE UNDERUTILIZATION NOTICE"
    ELSE IF cpu_status = "UNDERFLOW" THEN "CPU UNDERUTILIZATION NOTICE"
    ELSE IF memory_status = "UNDERFLOW" THEN "MEMORY UNDERUTILIZATION NOTICE"
    ELSE "HEALTHY RESOURCE UTILIZATION"

\* the two memory templates quote the memory analysis first
MemoryFirst(headline) ==
    headline \in {"MEMORY USAGE ALERT", "MEMORY UNDERUTILIZATION NOTICE"}

GenerateLlmResponse(pod_name, container_name, container_analysis) ==
    LET cpu_status      == container_analysis.cpu.status
        memory_status   == container_analysis.memory.status
        cpu_analysis    == container_analysis.cpu.analysis
        memory_analysis == container_analysis.memory.analysis
        headline        == Headline(cpu_status, memory_status)
    IN  [headline |-> headline, pod |-> pod_name, container |-> container_name,
         body |-> IF MemoryFirst(headline) THEN <<memory_analysis, cpu_analysis>>
                  ELSE <<cpu_analysis, memory_analysis>>]

\* the body of the container loop of analyze_resource_usage (lines 71-109)
AnalyzeContainer(container_metrics) ==
    LET cpu_usage     == ParseCpuValue(container_metrics.cpu)
        memory_usage  == ParseMemoryValue(container_metrics.memory)
        cpu_status    == CheckResourceStatus("cpu", cpu_usage.value,
                             thresholds.cpu.high, thresholds.cpu.low,
                             thresholds.cpu.request, thresholds.cpu.limit)
        memory_status == CheckResourceStatus("memory", memory_usage.value,
                             thresholds.memory.high, thresholds.memory.low,
                             thresholds.memory.request, thresholds.memory.limit)
    IN  IF cpu_usage.exc # None THEN Raise(cpu_usage.exc)
        ELSE IF memory_usage.exc # None THEN Raise(memory_usage.exc)
        ELSE Return([cpu    |-> [usage |-> cpu_usage.value,
                                 status |-> cpu_status.status,
                                 utilization_percentage |-> cpu_status.utilization_percentage,
                                 analysis |-> cpu_status.analysis],
                     memory |-> [usage |-> memory_usage.value,
                                 status |-> memory_status.status,
                                 utilization_percentage |-> memory_status.utilization_percentage,
                                 analysis |-> memory_status.analysis]])

\* the function a ValueError of that body comes out of: line 72 runs before 73
RaisedIn(container_metrics) ==
    IF ParseCpuValue(container_metrics.cpu).exc # None THEN "_parse_cpu_value"
    ELSE "_parse_memory_value"

(***************************************************************************)
(* State.                                                                  *)
(***************************************************************************)
VARIABLES
    \* main and the monitoring cycle
    config,         \* what load_config returned: retries, interval, endpoints
    now,            \* the clock, in seconds since main started
    mpc,            \* where main is: "first_cycle", "schedule", "run_pending",
                    \* "in_first_cycle", "job", "sleep", "stopped"
    next_run,       \* when the scheduled job is due, -1 before it is scheduled
    cycle_log,      \* the "Starting/Completed monitoring cycle at" log lines
    cpc,            \* where run_monitoring_cycle is: "idle", "endpoints",
                    \* "failing", "metrics"
    api_results,    \* the results check_all_endpoints has collected
    fidx,           \* the result the loop over failing endpoints is at
    pod_warnings,   \* pods reported as not Running in this cycle
    saved_logs,     \* the <<pod, container>> log files written in this cycle
    metrics,        \* what the cycle's last get_resource_metrics returned
    \* a call of ApiMonitor.check_endpoint
    eidx,           \* the endpoint check_all_endpoints is at
    epc,            \* where the call is: "none", "loop", "sleep", "returned", "raised"
    attempt,        \* the loop variable of the retry loop
    result,         \* the result dict
    call_log,       \* what the call did so far: its requests and its sleeps
    \* a call of ResourceAnalyzer.analyze_resource_usage
    pod_metrics,    \* its argument: a list of [name, containers]
    apc,            \* where the call is: "pods", "report", "returned", "raised"
    pidx,           \* the pod the outer loop is at
    pod_results,    \* pod_results['containers'] of that pod, in dict order
    results,        \* the dict it returns: pod name -> container analyses
    llm_log,        \* the reports _log_llm_response wrote, in order
    exception,      \* the exception that ended the call, None if none did
    \* a direct call of ResourceAnalyzer._check_resource_status
    call,           \* its arguments
    ret,            \* what it returned, NoReturn until it has
    \* a call of KubernetesMonitor.get_resource_metrics
    monitor,        \* the KubernetesMonitor: its metrics_api and its labels
    gpc,            \* where the call is: "start", "fallback", "mock", "returned",
                    \* "raised"
    api_succeeded,  \* list_namespaced_custom_object returned in this call
    mpods,          \* `pods`: what get_pods returned to the fallback
    mock_metrics,   \* the list _generate_mock_metrics is building
    scenario_log,   \* the scenario random.choice picked for each pod, in order
    k8s_log,        \* the lines the call logged
    returned,       \* what the call returned: [source, value]
    \* lines 25-58 of run_monitoring_cycle for one result
    fresult,        \* the result the loop is at
    fpc,            \* where the body is: "result", "pods", "done"
    fpods,          \* what get_pods returned
    podidx,         \* the pod the loop over the pods is at
    ops             \* what the body did so far, each step with the pod of the
                    \* iteration it was done in

analyzerVars == <<pod_metrics, apc, pidx, pod_results, results, llm_log, exception>>
statusVars == <<call, ret>>
mainVars == <<config, now, mpc, next_run, cycle_log, cpc, api_results, fidx,
              pod_warnings, saved_logs, metrics>>
endpointVars == <<eidx, epc, attempt, result, call_log>>
metricsVars == <<monitor, gpc, api_succeeded, mpods, mock_metrics, scenario_log,
                 k8s_log, returned>>
failureVars == <<fresult, fpc, fpods, podidx, ops>>
clusterVars == <<metricsVars, failureVars>>
vars == <<mainVars, endpointVars, analyzerVars, statusVars, clusterVars>>

\* the state of the parts a specification does not exercise
MainUnused ==
    /\ config = None /\ now = 0 /\ mpc = "unused" /\ next_run = 0 - 1
    /\ cycle_log = <<>> /\ cpc = "unused" /\ api_results = <<>> /\ fidx = 0
    /\ pod_warnings = {} /\ saved_logs = {} /\ metrics = <<>>
    /\ eidx = 0 /\ epc = "unused" /\ attempt = 0 /\ result = None /\ call_log = <<>>

AnalyzerUnused ==
    /\ pod_metrics = <<>> /\ apc = "unused" /\ pidx = 0
    /\ pod_results = <<>> /\ results = <<>> /\ llm_log = <<>>
    /\ exception = [type |-> None]

\* _check_resource_status has not returned
NoReturn == [status |-> None]

StatusUnused == call = None /\ ret = NoReturn

\* get_resource_metrics has not returned
NotReturned == [source |-> None, value |-> <<>>]

MetricsUnused ==
    /\ monitor = None /\ gpc = "unused" /\ api_succeeded = FALSE /\ mpods = <<>>
    /\ mock_metrics = <<>> /\ scenario_log = <<>> /\ k8s_log = <<>>
    /\ returned = NotReturned

FailureUnused ==
    /\ fresult = None /\ fpc = "unused" /\ fpods = <<>> /\ podidx = 0 /\ ops = <<>>

ClusterUnused == MetricsUnused /\ FailureUnused

(***************************************************************************)
(* The quantities that reach the analyzer.                                 *)
(***************************************************************************)
\* f written with k digits, zero padded
RECURSIVE Padded(_, _)
Padded(f, k) == IF k = 0 THEN <<>>
                ELSE Padded(f \div 10, k - 1) \o <<DigitChars[(f % 10) + 1]>>

CpuSuffixes == {<<"n">>, <<"u">>, <<"m">>}

\* CPU quantities as the metrics API writes them, and a few it never writes
CpuStrings ==
    {<<>>}
    \cup {Fmt(d) \o suffix : d \in 0..MaxD, suffix \in CpuSuffixes}
    \cup {Fmt(t + k) \o <<"n">> : t \in {CpuLow, CpuHigh}, k \in (0 - MaxDelta)..MaxDelta}
    \cup {Fmt(d) : d \in 0..MaxCores}
    \cup UNION {{Fmt(w) \o <<".">> \o Padded(f, k) :
                    w \in 0..(MaxCores - 1), f \in {g \in 0..MaxFrac : g < Pow10(k)}} :
                k \in 1..MaxFracDigits}
    \cup {<<"m">>, <<"-", "1", "n">>, <<"1", ".", "5", "m">>, <<"c", "p", "u">>}

MemorySuffixes == {<<"K", "i">>, <<"M", "i">>, <<"K">>, <<"k">>, <<"M">>, <<"m">>, <<>>}

\* 2Gi is 2^31 bytes, one more than TLC's largest integer
GiUnits == {0, 1}

\* memory quantities likewise
MemoryStrings ==
    {<<>>}
    \cup {Fmt(d) \o suffix : d \in 0..MaxD, suffix \in MemorySuffixes}
    \cup {Fmt(d) \o suffix : d \in 0..MaxCores, suffix \in {<<"G">>, <<"g">>}}
    \cup {Fmt(d) \o <<"G", "i">> : d \in GiUnits}
    \cup {Fmt(t + k) : t \in {MemoryLow, MemoryHigh}, k \in (0 - MaxDelta)..MaxDelta}
    \cup {<<"M", "i">>, <<"-", "1", "K", "i">>, <<"1", ".", "5", "G", "i">>, <<"1", "0", "M", "B">>}

\* one low, one normal and one high usage of each resource
SampleCpu == {<<"1", "m">>, <<"1", "2", "m">>, <<"3", "0", "m">>}
SampleMemory == {<<"5", "M", "i">>, <<"1", "5", "M", "i">>, <<"3", "0", "M", "i">>}

Container(name, cpu, memory) == [name |-> name, cpu |-> cpu, memory |-> memory]

\* the metrics of one container: every quantity once, and every pair of samples
SingleMetrics ==
    {[cpu |-> c, memory |-> <<"1", "5", "M", "i">>] : c \in CpuStrings}
    \cup {[cpu |-> <<"1", "2", "m">>, memory |-> m] : m \in MemoryStrings}
    \cup {[cpu |-> c, memory |-> m] : c \in SampleCpu, m \in SampleMemory}

\* the metrics the containers of the longer lists have
ListMetrics ==
    {[cpu |-> <<"3", "0", "m">>, memory |-> <<"1", "5", "M", "i">>],
     [cpu |-> <<"1", "2", "m">>, memory |-> <<"1", "0", "M", "B">>]}

ContainerLists ==
    UNION {[1..n -> ListMetrics] : n \in 0..MaxContainers}

Named(prefix, metrics_list) ==
    [i \in 1..Len(metrics_list) |->
        Container(<<prefix, i>>, metrics_list[i].cpu, metrics_list[i].memory)]

PodMetric(i, metrics_list) ==
    [name |-> <<"pod", i>>, containers |-> Named("c", metrics_list)]

\* the arguments of analyze_resource_usage
PodMetricsInputs ==
    {<<PodMetric(1, <<m>>)>> : m \in SingleMetrics}
    \cup UNION {{[i \in 1..n |-> PodMetric(i, l[i])] : l \in [1..n -> ContainerLists]} :
                n \in 0..MaxPods}

(***************************************************************************)
(* ResourceAnalyzer.analyze_resource_usage, one pod of the outer loop at a *)
(* time: first the container loop (lines 70-113), then the report loop     *)
(* (lines 116-129).                                                        *)
(***************************************************************************)
InitAnalyzer ==
    /\ pod_metrics \in PodMetricsInputs
    /\ apc = "pods"
    /\ pidx = 1
    /\ pod_results = <<>>
    /\ results = <<>>
    /\ llm_log = <<>>
    /\ exception = [type |-> None]
    /\ StatusUnused
    /\ MainUnused
    /\ ClusterUnused

\* the analyses of the containers of a pod, up to the first that raises
ContainerAnalyses(containers) ==
    [j \in 1..Len(containers) |->
        [name |-> containers[j].name, outcome |-> AnalyzeContainer(containers[j])]]

AnalyzePod ==
    /\ apc = "pods"
    /\ pidx <= Len(pod_metrics)
    /\ LET pod      == pod_metrics[pidx]
           analyses == ContainerAnalyses(pod.containers)
           raising  == {j \in 1..Len(analyses) : analyses[j].outcome.exc # None}
           first    == CHOOSE j \in raising : \A k \in raising : j <= k
       IN  IF raising # {}
           THEN /\ apc' = "raised"
                /\ pod_results' = [j \in 1..(first - 1) |->
                                     [name |-> analyses[j].name,
                                      analysis |-> analyses[j].outcome.value]]
                /\ exception' = [type |-> analyses[first].outcome.exc,
                                 frame |-> RaisedIn(pod.containers[first])]
                /\ UNCHANGED results
           ELSE /\ apc' = "report"
                /\ UNCHANGED exception
                /\ pod_results' = [j \in 1..Len(analyses) |->
                                     [name |-> analyses[j].name,
                                      analysis |-> analyses[j].outcome.value]]
                /\ results' = [n \in DOMAIN results \cup {Len(results) + 1} |->
                                 IF n \in DOMAIN results THEN results[n]
                                 ELSE [name |-> pod.name, containers |-> pod_results']]
    /\ UNCHANGED <<pod_metrics, pidx, llm_log, statusVars, clusterVars, mainVars, endpointVars>>

\* _generate_llm_response and _log_llm_response for each container of the pod
ReportPod ==
    /\ apc = "report"
    /\ llm_log' = llm_log \o
           [j \in 1..Len(pod_results) |->
               [pod |-> pod_metrics[pidx].name,
                container |-> pod_results[j].name,
                analysis |-> pod_results[j].analysis,
                llm_response |-> GenerateLlmResponse(pod_metrics[pidx].name,
                                     pod_results[j].name, pod_results[j].analysis)]]
    /\ pidx' = pidx + 1
    /\ apc' = "pods"
    /\ UNCHANGED <<pod_metrics, pod_results, results, exception, statusVars, clusterVars,
                   mainVars, endpointVars>>

AnalyzeReturn ==
    /\ apc = "pods"
    /\ pidx > Len(pod_metrics)
    /\ apc' = "returned"
    /\ UNCHANGED <<pod_metrics, pidx, pod_results, results, llm_log, exception, statusVars, clusterVars,
                   mainVars, endpointVars>>

NextAnalyzer == AnalyzePod \/ ReportPod \/ AnalyzeReturn

SpecAnalyzer == InitAnalyzer /\ [][NextAnalyzer]_vars

(***************************************************************************)
(* A direct call of _check_resource_status.                                *)
(***************************************************************************)
StatusArgs(resource_type, usage, high, low, request, limit) ==
    [resource_type |-> resource_type, usage |-> usage, high_threshold |-> high,
     low_threshold |-> low, request |-> request, limit |-> limit]

\* the calls analyze_resource_usage makes, with usages around every threshold
BuiltInCalls ==
    {StatusArgs(r, t + k, thresholds[r].high, thresholds[r].low,
                thresholds[r].request, thresholds[r].limit) :
        r \in {"cpu", "memory"},
        t \in {MaxDelta, CpuLow, CpuHigh, CpuRequest, CpuLimit,
               MemoryLow, MemoryHigh, MemoryRequest, MemoryLimit},
        k \in (0 - MaxDelta)..MaxDelta}

\* calls with any thresholds, ordered or not, and any request
SmallCalls ==
    {StatusArgs(r, u, h, l, q, h + 1) :
        r \in {"cpu", "memory"}, u \in 0..MaxUsage,
        h \in 0..MaxThreshold, l \in 0..MaxThreshold, q \in (0 - 1)..MaxThreshold}

InitStatus ==
    /\ call \in BuiltInCalls \cup SmallCalls
    /\ ret = NoReturn
    /\ AnalyzerUnused
    /\ MainUnused
    /\ ClusterUnused

CallCheckResourceStatus ==
    /\ ret.status = None
    /\ ret' = CheckResourceStatus(call.resource_type, call.usage, call.high_threshold,
                                  call.low_threshold, call.request, call.limit)
    /\ UNCHANGED <<call, analyzerVars, clusterVars, mainVars, endpointVars>>

NextStatus == CallCheckResourceStatus

SpecStatus == InitStatus /\ [][NextStatus]_vars

(***************************************************************************)
(* What the outside world hands the monitor.                               *)
(***************************************************************************)
\* the status codes endpoints are configured to expect, and answer with
StatusCodes == {200, 404}

Response(code) == [kind |-> "response", status_code |-> code]

\* what requests.request does: it returns a response or raises
Outcomes ==
    {Response(code) : code \in StatusCodes}
    \cup {[kind |-> "Timeout"], [kind |-> "ConnectionError"],
          [kind |-> "Exception", text |-> <<"Invalid URL">>]}

Endpoint(i, expected_status) ==
    [path |-> <<"/", i>>, method |-> "GET", expected_status |-> expected_status]

\* config/config.yaml: nothing validates it, so retries may be 0.  The
\* endpoints expect the two status codes in turn.
Configs ==
    {[retries |-> r, interval |-> t,
      endpoints |-> [i \in 1..n |->
                        Endpoint(i, IF i % 2 = 1 THEN first
                                    ELSE CHOOSE code \in StatusCodes : code # first)]] :
        r \in 0..MaxRetries, t \in 1..MaxInterval,
        n \in 0..MaxEndpoints, first \in StatusCodes}

Pod(name, phase, containers) == [name |-> name, phase |-> phase, containers |-> containers]

\* what get_pods returns ([] also when the API call fails)
PodLists ==
    {<<>>,
     <<Pod("api-1", "Running", <<"app">>)>>,
     <<Pod("api-1", "Pending", <<"app">>)>>,
     <<Pod("api-1", "Running", <<"app", "sidecar">>), Pod("api-2", "Failed", <<"app">>)>>}

\* what get_resource_metrics returns ([] also when everything fails)
MetricsLists ==
    {<<>>,
     <<[name |-> "api-1",
        containers |-> <<Container("app", <<"3", "0", "m">>, <<"1", "5", "M", "i">>)>>]>>}

(***************************************************************************)
(* ApiMonitor.check_endpoint.                                              *)
(***************************************************************************)
NoError == <<>>

\* the result dict before the first attempt (lines 25-33)
NewResult(endpoint) ==
    [url |-> endpoint.path, method |-> endpoint.method, success |-> FALSE,
     status_code |-> None, error |-> NoError]

\* line 48: the attempt succeeded
StatusMatches(status_code, expected_status) == status_code = expected_status


\* a call without the last except clause
CatchesRequestErrors(outcome) == outcome.kind \in {"Timeout", "ConnectionError"}

\* the except clauses of lines 54-59: what the call catches
Catches(outcome) == outcome.kind \in {"Timeout", "ConnectionError", "Exception"}

\* result['error'] after an attempt that failed (lines 52-59)
ErrorOf(outcome) ==
    IF outcome.kind = "response" THEN <<"Unexpected status code: ", outcome.status_code>>
    ELSE IF outcome.kind = "Timeout" THEN <<"Request timed out">>
    ELSE IF outcome.kind = "ConnectionError" THEN <<"Connection error">>
    ELSE outcome.text


\* a call that sleeps after its last attempt too
SleepsAfterEvery(attempt_no, retries) == attempt_no < retries

\* line 62: whether the call sleeps after a failed attempt
SleepsAfter(attempt_no, retries) == attempt_no < retries - 1


\* a loop that runs once too often
ExhaustedOffByOne(attempt_no, retries) == attempt_no > retries

\* the loop variable has run through range(retries)
Exhausted(attempt_no, retries) == attempt_no >= retries

\* check_all_endpoints calls check_endpoint for the next endpoint
BeginCheck ==
    /\ cpc = "endpoints"
    /\ epc \in {"none", "returned"}
    /\ eidx <= Len(config.endpoints)
    /\ result' = NewResult(config.endpoints[eidx])
    /\ attempt' = 0
    /\ call_log' = <<>>
    /\ epc' = "loop"
    /\ UNCHANGED <<mainVars, eidx, analyzerVars, statusVars, clusterVars>>

\* one pass of the retry loop, up to its sleep (lines 35-63); a request takes
\* less than a tick of the clock
Attempt ==
    /\ epc = "loop"
    /\ ~Exhausted(attempt, config.retries)
    /\ \E outcome \in Outcomes :
         LET expected_status == config.endpoints[eidx].expected_status IN
         /\ call_log' = Append(call_log, [event |-> "request", outcome |-> outcome])
         /\ IF outcome.kind = "response"
            THEN IF StatusMatches(outcome.status_code, expected_status)
                 THEN /\ result' = [result EXCEPT !.status_code = outcome.status_code,
                                                  !.success = TRUE]
                      /\ epc' = "log"
                      /\ UNCHANGED attempt
                 ELSE /\ result' = [result EXCEPT !.status_code = outcome.status_code,
                                                  !.error = ErrorOf(outcome)]
                      /\ IF SleepsAfter(attempt, config.retries)
                         THEN epc' = "sleep" /\ UNCHANGED attempt
                         ELSE epc' = "loop" /\ attempt' = attempt + 1
            ELSE IF Catches(outcome)
                 THEN /\ result' = [result EXCEPT !.error = ErrorOf(outcome)]
                      /\ IF SleepsAfter(attempt, config.retries)
                         THEN epc' = "sleep" /\ UNCHANGED attempt
                         ELSE epc' = "loop" /\ attempt' = attempt + 1
                 ELSE \* the exception leaves check_endpoint
                      /\ epc' = "raised"
                      /\ UNCHANGED <<result, attempt>>
    /\ UNCHANGED <<mainVars, eidx, analyzerVars, statusVars, clusterVars>>

\* time.sleep(1) before the next attempt (line 63)
SleepBeforeRetry ==
    /\ epc = "sleep"
    /\ now < MaxTime
    /\ now' = now + 1
    /\ call_log' = Append(call_log, [event |-> "sleep"])
    /\ attempt' = attempt + 1
    /\ epc' = "loop"
    /\ UNCHANGED <<config, mpc, next_run, cycle_log, cpc, api_results, fidx,
                   pod_warnings, saved_logs, metrics, eidx, result, analyzerVars, statusVars, clusterVars>>

\* the call logs UP or DOWN and returns; check_all_endpoints appends the result
ReturnResult ==
    /\ \/ epc = "log"
       \/ epc = "loop" /\ Exhausted(attempt, config.retries)
    /\ epc' = "returned"
    /\ api_results' = Append(api_results, result)
    /\ eidx' = eidx + 1
    /\ UNCHANGED <<config, now, mpc, next_run, cycle_log, cpc, fidx, pod_warnings,
                   saved_logs, metrics, attempt, result, call_log, analyzerVars, statusVars, clusterVars>>

(***************************************************************************)
(* run_monitoring_cycle.                                                   *)
(***************************************************************************)
\* lines 14-18: the cycle starts and calls check_all_endpoints
StartCycle ==
    /\ cycle_log' = Append(cycle_log, [line |-> "Starting", at |-> now])
    /\ cpc' = "endpoints"
    /\ api_results' = <<>>
    /\ eidx' = 1
    /\ epc' = "none"
    /\ fidx' = 1
    /\ pod_warnings' = {}
    /\ saved_logs' = {}
    /\ metrics' = <<>>
    /\ UNCHANGED <<attempt, result, call_log>>

\* check_all_endpoints returns; lines 21-22 log the summary
EndpointsChecked ==
    /\ cpc = "endpoints"
    /\ epc \in {"none", "returned"}
    /\ eidx > Len(config.endpoints)
    /\ cpc' = "failing"
    /\ UNCHANGED <<config, now, mpc, next_run, cycle_log, api_results, fidx,
                   pod_warnings, saved_logs, metrics, endpointVars, analyzerVars, statusVars, clusterVars>>

RunningPods(pods) == {i \in 1..Len(pods) : pods[i].phase = "Running"}

\* lines 25-58 for one result: nothing for a success; for a failure the pods
\* are listed, the ones not Running reported, the logs of the others saved
HandleResult ==
    /\ cpc = "failing"
    /\ fidx <= Len(api_results)
    /\ IF api_results[fidx].success
       THEN UNCHANGED <<pod_warnings, saved_logs>>
       ELSE \E pods \in PodLists :
              /\ pod_warnings' = pod_warnings \cup
                     {pods[i].name : i \in (1..Len(pods)) \ RunningPods(pods)}
              /\ saved_logs' = saved_logs \cup
                     UNION {{<<pods[i].name, pods[i].containers[j]>> :
                               j \in 1..Len(pods[i].containers)} : i \in RunningPods(pods)}
    /\ fidx' = fidx + 1
    /\ UNCHANGED <<config, now, mpc, next_run, cycle_log, cpc, api_results, metrics,
                   endpointVars, analyzerVars, statusVars, clusterVars>>

\* lines 61-67: the metrics of all pods are fetched and logged
CollectMetrics ==
    /\ cpc = "failing"
    /\ fidx > Len(api_results)
    /\ \E m \in MetricsLists : metrics' = m
    /\ cpc' = "metrics"
    /\ UNCHANGED <<config, now, mpc, next_run, cycle_log, api_results, fidx,
                   pod_warnings, saved_logs, endpointVars, analyzerVars, statusVars, clusterVars>>

(***************************************************************************)
(* main, and the job the schedule library runs for it.                     *)
(***************************************************************************)

\* a job run a second before it is due
ShouldRunEarly(time, due) == time + 1 >= due

\* schedule's Job.should_run
ShouldRun(time, due) == time >= due

\* schedule's next run of a job scheduled, or run, at `time`
NextRun(time, interval) == time + interval

InitMain ==
    /\ config \in Configs
    /\ now = 0
    /\ mpc = "first_cycle"
    /\ next_run = 0 - 1
    /\ cycle_log = <<>>
    /\ cpc = "idle"
    /\ api_results = <<>>
    /\ fidx = 0
    /\ pod_warnings = {}
    /\ saved_logs = {}
    /\ metrics = <<>>
    /\ eidx = 0
    /\ epc = "none"
    /\ attempt = 0
    /\ result = None
    /\ call_log = <<>>
    /\ AnalyzerUnused
    /\ StatusUnused
    /\ ClusterUnused

\* line 94: the first cycle
RunFirstCycle ==
    /\ mpc = "first_cycle"
    /\ cpc = "idle"
    /\ StartCycle
    /\ mpc' = "in_first_cycle"
    /\ UNCHANGED <<config, now, next_run, analyzerVars, statusVars, clusterVars>>

\* line 69, and the return to the caller: main (line 97 schedules the job) or
\* the schedule library (which sets the job's next run)
CompleteCycle ==
    /\ cpc = "metrics"
    /\ cycle_log' = Append(cycle_log, [line |-> "Completed", at |-> now])
    /\ cpc' = "idle"
    /\ IF mpc = "in_first_cycle"
       THEN mpc' = "schedule" /\ UNCHANGED next_run
       ELSE mpc' = "sleep" /\ next_run' = NextRun(now, config.interval)
    \* the locals of the cycle are gone; what it fetched last stays on the log
    /\ api_results' = <<>>
    /\ fidx' = 0
    /\ pod_warnings' = {}
    /\ saved_logs' = {}
    /\ eidx' = 0
    /\ epc' = "none"
    /\ attempt' = 0
    /\ result' = None
    /\ call_log' = <<>>
    /\ UNCHANGED <<config, now, metrics, analyzerVars, statusVars, clusterVars>>

\* line 97: schedule.every(interval).seconds.do(...)
ScheduleJob ==
    /\ mpc = "schedule"
    /\ next_run' = NextRun(now, config.interval)
    /\ mpc' = "run_pending"
    /\ UNCHANGED <<config, now, cycle_log, cpc, api_results, fidx, pod_warnings,
                   saved_logs, metrics, endpointVars, analyzerVars, statusVars, clusterVars>>

\* line 102: schedule.run_pending() runs the job if it is due
RunPending ==
    /\ mpc = "run_pending"
    /\ IF ShouldRun(now, next_run)
       THEN /\ cpc = "idle"
            /\ StartCycle
            /\ mpc' = "job"
       ELSE /\ mpc' = "sleep"
            /\ UNCHANGED <<cycle_log, cpc, api_results, fidx, pod_warnings, saved_logs,
                           metrics, endpointVars>>
    /\ UNCHANGED <<config, now, next_run, analyzerVars, statusVars, clusterVars>>

\* line 103: time.sleep(1)
Sleep ==
    /\ mpc = "sleep"
    /\ now < MaxTime
    /\ now' = now + 1
    /\ mpc' = "run_pending"
    /\ UNCHANGED <<config, next_run, cycle_log, cpc, api_results, fidx, pod_warnings,
                   saved_logs, metrics, endpointVars, analyzerVars, statusVars, clusterVars>>

\* lines 104-110: Ctrl-C in the main loop stops the monitor
KeyboardInterrupt ==
    /\ mpc \in {"run_pending", "job", "sleep"}
    /\ mpc' = "stopped"
    /\ UNCHANGED <<config, now, next_run, cycle_log, cpc, api_results, fidx, pod_warnings,
                   saved_logs, metrics, endpointVars, analyzerVars, statusVars, clusterVars>>

\* main has not stopped
Alive == mpc # "stopped"

Init == InitMain

Next ==
    \/ RunFirstCycle
    \/ Alive /\ BeginCheck
    \/ Alive /\ Attempt
    \/ Alive /\ SleepBeforeRetry
    \/ Alive /\ ReturnResult
    \/ Alive /\ EndpointsChecked
    \/ Alive /\ HandleResult
    \/ Alive /\ CollectMetrics
    \/ Alive /\ CompleteCycle
    \/ ScheduleJob
    \/ RunPending
    \/ Sleep
    \/ KeyboardInterrupt

Spec == Init /\ [][Next]_vars

(***************************************************************************)
(* The cluster, as KubernetesMonitor sees it.                              *)
(***************************************************************************)
\* self.labels: the configured dict as its (key, value) pairs, or a value that
\* is no dict (a `labels:` key left empty in the YAML file loads as None)
Labels(pairs) == [is_dict |-> TRUE, pairs |-> pairs]

NoLabels == [is_dict |-> FALSE, pairs |-> {}]

AppLabels == Labels({<<"app", "fastapi">>})

\* a KubernetesMonitor after __init__: metrics_api is None when line 23 raised
Monitors ==
    {[metrics_api |-> a, labels |-> l] : a \in BOOLEAN, l \in {AppLabels, NoLabels}}

\* a container of an item of the metrics API: its name and, if present, its usage
ItemContainer(name, has_usage, cpu, memory) ==
    [name |-> name, has_usage |-> has_usage, cpu |-> cpu, memory |-> memory]

\* an item of the metrics API: metadata.name, metadata.labels, whether it has a
\* 'timestamp' key, and its containers
Item(name, labels, has_timestamp, containers) ==
    [name |-> name, labels |-> labels, has_timestamp |-> has_timestamp,
     containers |-> containers]

MetricsItems ==
    {Item("api-1", {<<"app", "fastapi">>}, TRUE,
          <<ItemContainer("app", TRUE, <<"3", "0", "m">>, <<"1", "5", "M", "i">>)>>),
     Item("db-1", {<<"app", "postgres">>}, TRUE,
          <<ItemContainer("db", TRUE, <<"1", "m">>, <<"5", "M", "i">>)>>),
     Item("api-2", {<<"app", "fastapi">>, <<"tier", "web">>}, FALSE,
          <<ItemContainer("app", FALSE, <<>>, <<>>)>>),
     Item("api-3", {<<"app", "fastapi">>, <<"tier", "web">>}, TRUE,
          <<ItemContainer("app", FALSE, <<>>, <<>>),
            ItemContainer("sidecar", TRUE, <<"1", "2", "m">>, <<"3", "0", "M", "i">>)>>),
     Item("job-1", {}, FALSE, <<>>)}

\* what list_namespaced_custom_object hands back: it raises, or returns a dict
\* whose 'items' are these
MetricsOutcomes ==
    {Raise("ApiException")}
    \cup {Return(items) : items \in UNION {[1..n -> MetricsItems] : n \in 0..MaxItems}}

\* what list_namespaced_pod hands back
PodsOutcomes == {Raise("ApiException")} \cup {Return(p) : p \in PodLists}

(***************************************************************************)
(* KubernetesMonitor.get_pods.                                             *)
(***************************************************************************)
\* line 30 is outside the try and raises for labels that are no dict; an error
\* of the API call is caught (lines 54-56) and gives []
GetPods(labels, outcome) ==
    IF ~labels.is_dict THEN Raise("AttributeError")
    ELSE IF outcome.exc # None THEN Return(<<>>)
    ELSE Return(outcome.value)

(***************************************************************************)
(* KubernetesMonitor.get_resource_metrics.                                 *)
(***************************************************************************)
\* lines 137-141: every configured label is on the item with the same value
LabelMatch(item, labels) == labels.pairs \subseteq item.labels

\* lines 146-151: the usage of each container, '0' where it is missing
ContainersOf(item) ==
    [j \in 1..Len(item.containers) |->
        LET container == item.containers[j]
        IN  Container(container.name,
                      IF container.has_usage THEN container.cpu ELSE <<"0">>,
                      IF container.has_usage THEN container.memory ELSE <<"0">>)]

\* lines 132-157: the loop over the items, which ends with the first exception
RECURSIVE ProcessItems(_, _, _)
ProcessItems(items, labels, acc) ==
    IF items = <<>> THEN Return(acc)
    ELSE LET item == Head(items)
         IN  IF ~labels.is_dict THEN Raise("AttributeError")
             ELSE IF ~LabelMatch(item, labels)
             THEN ProcessItems(Tail(items), labels, acc)
             ELSE IF ~item.has_timestamp THEN Raise("KeyError")
             ELSE ProcessItems(Tail(items), labels,
                      Append(acc, [name |-> item.name,
                                   containers |-> ContainersOf(item)]))

\* a line of the log, with the exception it reports if it reports one
LogLine(line, error) == [line |-> line, error |-> error]

\* lines 123-160: the API call and the processing of what it returned
Actual(outcome, labels) ==
    IF outcome.exc # None THEN outcome
    ELSE ProcessItems(outcome.value, labels, <<>>)

\* a fallback also for an empty list of actual metrics
FallsBackWhenEmpty(actual) == actual.exc # None \/ actual.value = <<>>

\* line 162: the except clause that leads to the mock metrics
FallsBack(actual) == actual.exc # None

(***************************************************************************)
(* KubernetesMonitor._generate_mock_metrics.                               *)
(***************************************************************************)
scenarios ==
    <<[cpu_base |-> 900000000, cpu_var |-> 100000000, mem_base |-> 200, mem_var |-> 50],
      [cpu_base |-> 400000000, cpu_var |-> 100000000, mem_base |-> 450, mem_var |-> 50],
      [cpu_base |-> 50000000, cpu_var |-> 30000000, mem_base |-> 40, mem_var |-> 10],
      [cpu_base |-> 350000000, cpu_var |-> 100000000, mem_base |-> 200, mem_var |-> 50],
      [cpu_base |-> 950000000, cpu_var |-> 100000000, mem_base |-> 480, mem_var |-> 30]>>

\* random.randint(a, b): both ends and evenly spaced values between them
RandInt(a, b) == {a + (k * (b - a)) \div MaxDraws : k \in 0..MaxDraws}

\* lines 98-108: the metrics of one container
MockContainer(scenario, container, cpu_draw, memory_draw) ==
    LET cpu_usage == scenario.cpu_base + cpu_draw
        memory_mb == scenario.mem_base + memory_draw
    IN  Container(container, Fmt(cpu_usage) \o <<"n">>, Fmt(memory_mb) \o <<"M", "i">>)

\* the draws of one container under a scenario
Draws(scenario) ==
    RandInt(0 - scenario.cpu_var, scenario.cpu_var)
        \X RandInt(0 - scenario.mem_var, scenario.mem_var)

(***************************************************************************)
(* A call of get_resource_metrics.                                         *)
(***************************************************************************)
InitMetrics ==
    /\ monitor \in Monitors
    /\ gpc = "start"
    /\ api_succeeded = FALSE
    /\ mpods = <<>>
    /\ mock_metrics = <<>>
    /\ scenario_log = <<>>
    /\ k8s_log = <<>>
    /\ returned = NotReturned
    /\ FailureUnused
    /\ MainUnused
    /\ AnalyzerUnused
    /\ StatusUnused

\* lines 122-164 with a metrics API
FetchActual ==
    /\ gpc = "start"
    /\ monitor.metrics_api
    /\ \E outcome \in MetricsOutcomes :
         LET actual == Actual(outcome, monitor.labels)
         IN  /\ api_succeeded' = (outcome.exc = None)
             /\ IF FallsBack(actual)
                THEN /\ gpc' = "fallback"
                     /\ k8s_log' = Append(k8s_log,
                            LogLine("Error getting actual pod metrics", actual.exc))
                     /\ UNCHANGED returned
                ELSE /\ gpc' = "returned"
                     /\ k8s_log' = Append(k8s_log, LogLine("Retrieved metrics", None))
                     /\ returned' = [source |-> "actual", value |-> actual.value]
    /\ UNCHANGED <<monitor, mpods, mock_metrics, scenario_log, failureVars,
                   mainVars, endpointVars, analyzerVars, statusVars>>

\* line 122 without one
NoMetricsApi ==
    /\ gpc = "start"
    /\ ~monitor.metrics_api
    /\ gpc' = "fallback"
    /\ UNCHANGED <<monitor, api_succeeded, mpods, mock_metrics, scenario_log, k8s_log,
                   returned, failureVars, mainVars, endpointVars, analyzerVars,
                   statusVars>>

\* line 168, and lines 173-175 when get_pods raises
Fallback ==
    /\ gpc = "fallback"
    /\ \E outcome \in PodsOutcomes :
         LET got == GetPods(monitor.labels, outcome)
         IN  IF got.exc # None
             THEN /\ gpc' = "returned"
                  /\ k8s_log' = Append(k8s_log,
                         LogLine("Error in get_resource_metrics", got.exc))
                  /\ returned' = [source |-> "error", value |-> <<>>]
                  /\ UNCHANGED mpods
             ELSE /\ gpc' = "mock"
                  /\ k8s_log' = Append(k8s_log,
                         IF outcome.exc # None
                         THEN LogLine("Error getting pods", outcome.exc)
                         ELSE LogLine("Found pods", None))
                  /\ mpods' = got.value
                  /\ UNCHANGED returned
    /\ UNCHANGED <<monitor, api_succeeded, mock_metrics, scenario_log, failureVars,
                   mainVars, endpointVars, analyzerVars, statusVars>>

\* lines 91-114 for one pod
MockPod ==
    /\ gpc = "mock"
    /\ Len(mock_metrics) < Len(mpods)
    /\ LET pod == mpods[Len(mock_metrics) + 1]
       IN  \E s \in DOMAIN scenarios :
             \E draws \in [1..Len(pod.containers) -> Draws(scenarios[s])] :
               /\ scenario_log' = Append(scenario_log, s)
               /\ mock_metrics' = Append(mock_metrics,
                      [name |-> pod.name,
                       containers |-> [j \in 1..Len(pod.containers) |->
                           MockContainer(scenarios[s], pod.containers[j],
                                         draws[j][1], draws[j][2])]])
    /\ UNCHANGED <<monitor, gpc, api_succeeded, mpods, k8s_log, returned, failureVars,
                   mainVars, endpointVars, analyzerVars, statusVars>>

\* lines 116 and 170-171
ReturnMock ==
    /\ gpc = "mock"
    /\ Len(mock_metrics) = Len(mpods)
    /\ gpc' = "returned"
    /\ k8s_log' = Append(k8s_log, LogLine("Generated mock metrics", None))
    /\ returned' = [source |-> "mock", value |-> mock_metrics]
    /\ UNCHANGED <<monitor, api_succeeded, mpods, mock_metrics, scenario_log,
                   failureVars, mainVars, endpointVars, analyzerVars, statusVars>>

NextMetrics == FetchActual \/ NoMetricsApi \/ Fallback \/ MockPod \/ ReturnMock

SpecMetrics == InitMetrics /\ [][NextMetrics]_vars

(***************************************************************************)
(* run_monitoring_cycle, lines 25-58: what the cycle does for one result   *)
(* of check_all_endpoints, one pod of the inner loop at a time.            *)
(***************************************************************************)
PodNames == <<"pod-1", "pod-2", "pod-3", "pod-4">>

ContainerNames == <<"app", "sidecar", "proxy", "agent">>

Phases == {"Running", "Pending", "Failed"}

\* the pods of the namespace: up to MaxPods pods in any phase, each with one
\* to MaxContainers containers
ClusterPods ==
    UNION {{[i \in 1..n |-> Pod(PodNames[i], shape[i][1],
                                SubSeq(ContainerNames, 1, shape[i][2]))] :
              shape \in [1..n -> Phases \X (1..MaxContainers)]} : n \in 0..MaxPods}

\* the results the loop of line 25 meets
Results ==
    {[url |-> <<"/", "h", "e", "a", "l", "t", "h">>, success |-> TRUE, error |-> NoError],
     [url |-> <<"/", "h", "e", "a", "l", "t", "h">>, success |-> FALSE,
      error |-> <<"Connection error">>]}

\* what get_resource_metrics hands the cycle for a list of pods: nothing,
\* metrics of every pod (as the mock metrics are), or of the running pods only
MetricsOf(pod_list) ==
    [i \in 1..Len(pod_list) |->
        [name |-> pod_list[i].name, phase |-> pod_list[i].phase,
         containers |-> [j \in 1..Len(pod_list[i].containers) |->
             Container(pod_list[i].containers[j],
                       <<"3", "0", "m">>, <<"1", "5", "M", "i">>)]]]

IsRunningMetric(pod_metric) == pod_metric.phase = "Running"

MetricsFor(pod_list) ==
    {<<>>, MetricsOf(pod_list), SelectSeq(MetricsOf(pod_list), IsRunningMetric)}

\* what read_namespaced_pod_log hands back
LogOutcomes == {Return("logs"), Raise("ApiException")}

\* get_pod_logs (kubernetes_monitor.py lines 58-71): the logs, or a text that
\* reports the error
GetPodLogs(outcome) ==
    IF outcome.exc # None THEN "Error retrieving logs" ELSE outcome.value

\* a step of the cycle, with the pod of the iteration it was done in
Op(op, iteration, pod_name, container, content) ==
    [op |-> op, iteration |-> iteration, pod |-> pod_name, container |-> container,
     content |-> content]

RECURSIVE Flatten(_)
Flatten(seqs) == IF seqs = <<>> THEN <<>> ELSE Head(seqs) \o Flatten(Tail(seqs))

\* lines 39-42: the metrics logged for a pod
MetricsLines(pod, iteration, fetched) ==
    Flatten([p \in 1..Len(fetched) |->
        IF fetched[p].name = pod.name
        THEN [j \in 1..Len(fetched[p].containers) |->
                 Op("log_metrics", iteration, fetched[p].name,
                    fetched[p].containers[j].name, None)]
        ELSE <<>>])

\* lines 46-58: the logs of each container retrieved and written to its file
LogSteps(pod, iteration, outcomes) ==
    Flatten([j \in 1..Len(pod.containers) |->
        <<Op("get_pod_logs", iteration, pod.name, pod.containers[j], None),
          Op("write", iteration, pod.name, pod.containers[j],
             GetPodLogs(outcomes[j]))>>])

\* a pod skipped only when it has failed
SkipsWhenFailed(pod) == pod.phase = "Failed"

\* line 32: the pods the loop only warns about
Skips(pod) == pod.phase # "Running"

InitFailure ==
    /\ fresult \in Results
    /\ fpc = "result"
    /\ fpods = <<>>
    /\ podidx = 0
    /\ ops = <<>>
    /\ MetricsUnused
    /\ MainUnused
    /\ AnalyzerUnused
    /\ StatusUnused

\* line 26 for a result that succeeded
SkipSuccess ==
    /\ fpc = "result"
    /\ fresult.success
    /\ fpc' = "done"
    /\ UNCHANGED <<fresult, fpods, podidx, ops, metricsVars, mainVars, endpointVars,
                   analyzerVars, statusVars>>

\* lines 26-30 for one that failed; the monitor's labels are a dict
ListPods ==
    /\ fpc = "result"
    /\ ~fresult.success
    /\ \E outcome \in {Raise("ApiException")} \cup {Return(p) : p \in ClusterPods} :
         fpods' = GetPods(AppLabels, outcome).value
    /\ ops' = Append(ops, Op("failed_endpoint", 0, None, None, None))
    /\ podidx' = 1
    /\ fpc' = "pods"
    /\ UNCHANGED <<fresult, metricsVars, mainVars, endpointVars, analyzerVars,
                   statusVars>>

\* lines 31-58 for one pod
HandlePod ==
    /\ fpc = "pods"
    /\ podidx <= Len(fpods)
    /\ LET pod == fpods[podidx]
       IN  IF Skips(pod)
           THEN ops' = Append(ops, Op("warning", podidx, pod.name, None, None))
           ELSE \E fetched \in MetricsFor(fpods) :
                  \E outcomes \in [1..Len(pod.containers) -> LogOutcomes] :
                    ops' = ops
                           \o <<Op("get_resource_metrics", podidx, None, None, None)>>
                           \o MetricsLines(pod, podidx, fetched)
                           \o LogSteps(pod, podidx, outcomes)
    /\ podidx' = podidx + 1
    /\ UNCHANGED <<fresult, fpc, fpods, metricsVars, mainVars, endpointVars,
                   analyzerVars, statusVars>>

\* the loop over the pods ends
PodsDone ==
    /\ fpc = "pods"
    /\ podidx > Len(fpods)
    /\ fpc' = "done"
    /\ UNCHANGED <<fresult, fpods, podidx, ops, metricsVars, mainVars, endpointVars,
                   analyzerVars, statusVars>>

NextFailure == SkipSuccess \/ ListPods \/ HandlePod \/ PodsDone

SpecFailure == InitFailure /\ [][NextFailure]_vars

(***************************************************************************)
(* Properties of the analyzer.                                             *)
(***************************************************************************)
\* the decimal text of an integer
FmtInt(d) == IF d < 0 THEN <<"-">> \o Fmt(0 - d) ELSE Fmt(d)

\* s is the decimal text of some integer d
WrittenInteger(s) ==
    LET digits == IF Len(s) > 0 /\ s[1] = "-" THEN Tail(s) ELSE s
    IN  /\ AllDigits(digits)
        /\ Len(digits) = 1 \/ digits[1] # "0"
        /\ digits = <<"0">> => digits = s

\* s is "d" followed by suffix, for some integer d
WrittenWith(s, suffix) == EndsWith(s, suffix) /\ WrittenInteger(DropLast(s, Len(suffix)))

\* value is d * factor, for the integer d that s writes before suffix
GivesTimes(s, suffix, value, factor) ==
    /\ value % factor = 0
    /\ FmtInt(value \div factor) = DropLast(s, Len(suffix))

\* s is a number of cores written "w" or "w.f"
WrittenCores(s) ==
    LET p == IndexOfDot(s)
    IN  IF p = 0 THEN AllDigits(s)
        ELSE AllDigits(SubSeq(s, 1, p - 1)) /\ AllDigits(SubSeq(s, p + 1, Len(s)))

\* the nanocores of "w.f": w.f * 10^9, which is an integer for up to 9 digits of f
CoresTimesBillion(s) ==
    LET p == IndexOfDot(s)
    IN  IF p = 0 THEN DigitsValue(s) * 1000000000
        ELSE DigitsValue(SubSeq(s, 1, p - 1) \o SubSeq(s, p + 1, Len(s)))
                 * Pow10(9 - (Len(s) - p))

CpuRules == {<<<<"n">>, 1>>, <<<<"u">>, 1000>>, <<<<"m">>, 1000000>>}

\* the claim's rules for one CPU quantity and the nanocores it was given
CpuValueAsClaimed(cpu_str, value) ==
    /\ cpu_str = <<>> => value = 0
    /\ \A rule \in CpuRules :
         WrittenWith(cpu_str, rule[1]) => GivesTimes(cpu_str, rule[1], value, rule[2])
    /\ WrittenCores(cpu_str) => value = CoresTimesBillion(cpu_str)

\* the quantities the claim's CPU rules cover
CpuCovered(cpu_str) ==
    \/ cpu_str = <<>>
    \/ WrittenCores(cpu_str)
    \/ \E rule \in CpuRules : WrittenWith(cpu_str, rule[1])

\* the container whose parsing raised
RaisingContainer == pod_metrics[pidx].containers[Len(pod_results) + 1]

\* C5: _parse_cpu_value gives d for "dn", d * 1,000 for "du", d * 1,000,000 for
\* "dm", the number of cores times 1,000,000,000 for a quantity with no suffix,
\* and 0 for the empty string.
C5_ParseCpuAsClaimed ==
    /\ \A n \in DOMAIN results : \A j \in DOMAIN results[n].containers :
         CpuValueAsClaimed(pod_metrics[n].containers[j].cpu,
                           results[n].containers[j].analysis.cpu.usage)
    /\ apc = "raised" /\ exception.frame = "_parse_cpu_value"
         => ~CpuCovered(RaisingContainer.cpu)

MemoryRules ==
    {<<<<"K", "i">>, 1024>>, <<<<"M", "i">>, 1024 * 1024>>,
     <<<<"G", "i">>, 1024 * 1024 * 1024>>,
     <<<<"K">>, 1000>>, <<<<"k">>, 1000>>,
     <<<<"M">>, 1000 * 1000>>, <<<<"m">>, 1000 * 1000>>,
     <<<<"G">>, 1000 * 1000 * 1000>>, <<<<"g">>, 1000 * 1000 * 1000>>,
     <<<<>>, 1>>}

\* the rules of the claim that a memory quantity matches
MemoryMatches(memory_str) == {rule \in MemoryRules : WrittenWith(memory_str, rule[1])}

\* C6: _parse_memory_value gives d * 1024 for "dKi", d * 1024^2 for "dMi",
\* d * 1024^3 for "dGi", d * 1000 for "dK" and "dk", d * 1000^2 for "dM" and "dm",
\* d * 1000^3 for "dG" and "dg", d for "d" and 0 for the empty string; a quantity
\* matches exactly one rule, and a binary suffix is never read as a decimal one.
C6_ParseMemoryAsClaimed ==
    /\ \A n \in DOMAIN results : \A j \in DOMAIN results[n].containers :
         LET memory_str == pod_metrics[n].containers[j].memory
             value      == results[n].containers[j].analysis.memory.usage
         IN  /\ memory_str = <<>> => value = 0
             /\ Cardinality(MemoryMatches(memory_str)) <= 1
             /\ \A rule \in MemoryMatches(memory_str) :
                  GivesTimes(memory_str, rule[1], value, rule[2])
             /\ memory_str # <<>> => MemoryMatches(memory_str) # {}
    /\ apc = "raised" /\ exception.frame = "_parse_memory_value"
         => /\ RaisingContainer.memory # <<>>
            /\ MemoryMatches(RaisingContainer.memory) = {}

\* a container given in MiB was analyzed at the high threshold
C6_Witness ==
    \E n \in DOMAIN results : \E j \in DOMAIN results[n].containers :
        /\ pod_metrics[n].containers[j].memory = <<"2", "5", "M", "i">>
        /\ results[n].containers[j].analysis.memory.usage = MemoryHigh

Headlines ==
    {"CRITICAL RESOURCE ALERT", "CPU USAGE ALERT", "MEMORY USAGE ALERT",
     "RESOURCE UNDERUTILIZATION NOTICE", "CPU UNDERUTILIZATION NOTICE",
     "MEMORY UNDERUTILIZATION NOTICE", "HEALTHY RESOURCE UTILIZATION"}

\* C8: _generate_llm_response selects exactly one of the seven templates from
\* the pair of statuses: CRITICAL iff both OVERFLOW, CPU (MEMORY) USAGE ALERT iff
\* only CPU (memory) is OVERFLOW, RESOURCE UNDERUTILIZATION iff both UNDERFLOW,
\* CPU (MEMORY) UNDERUTILIZATION iff CPU (memory) is UNDERFLOW and the other
\* NORMAL, HEALTHY iff both NORMAL.
C8_TemplateSelection ==
    \A i \in DOMAIN llm_log :
        LET h == llm_log[i].llm_response.headline
            c == llm_log[i].analysis.cpu.status
            m == llm_log[i].analysis.memory.status
        IN  /\ h \in Headlines
            /\ h = "CRITICAL RESOURCE ALERT" <=> (c = "OVERFLOW" /\ m = "OVERFLOW")
            /\ h = "CPU USAGE ALERT" <=> (c = "OVERFLOW" /\ m # "OVERFLOW")
            /\ h = "MEMORY USAGE ALERT" <=> (m = "OVERFLOW" /\ c # "OVERFLOW")
            /\ h = "RESOURCE UNDERUTILIZATION NOTICE" <=> (c = "UNDERFLOW" /\ m = "UNDERFLOW")
            /\ h = "CPU UNDERUTILIZATION NOTICE" <=> (c = "UNDERFLOW" /\ m = "NORMAL")
            /\ h = "MEMORY UNDERUTILIZATION NOTICE" <=> (m = "UNDERFLOW" /\ c = "NORMAL")
            /\ h = "HEALTHY RESOURCE UTILIZATION" <=> (c = "NORMAL" /\ m = "NORMAL")

\* a report was written for a container low on memory and normal on CPU
C8_Witness ==
    \E i \in DOMAIN llm_log :
        /\ llm_log[i].llm_response.headline = "MEMORY UNDERUTILIZATION NOTICE"
        /\ llm_log[i].analysis.cpu.status = "NORMAL"
        /\ llm_log[i].analysis.memory.status = "UNDERFLOW"

(***************************************************************************)
(* Properties of _check_resource_status.                                   *)
(***************************************************************************)
Returned == ret.status # None

BuiltIn(r) ==
    /\ call.resource_type = r
    /\ call.high_threshold = thresholds[r].high
    /\ call.low_threshold = thresholds[r].low

\* C3: _check_resource_status returns exactly one status: OVERFLOW iff
\* usage >= high, UNDERFLOW iff usage < high and usage <= low, NORMAL iff
\* low < usage < high; with the built-in thresholds a usage equal to a
\* threshold is never NORMAL.
C3_StatusClassification ==
    Returned =>
        /\ ret.status \in {"OVERFLOW", "UNDERFLOW", "NORMAL"}
        /\ ret.status = "OVERFLOW" <=> call.usage >= call.high_threshold
        /\ ret.status = "UNDERFLOW" <=>
               (call.usage < call.high_threshold /\ call.usage <= call.low_threshold)
        /\ ret.status = "NORMAL" <=>
               (call.low_threshold < call.usage /\ call.usage < call.high_threshold)
        /\ \A r \in {"cpu", "memory"} :
               BuiltIn(r) /\ call.usage \in {thresholds[r].low, thresholds[r].high}
                   => ret.status # "NORMAL"

\* the classifier returned for a memory usage of exactly 10 MiB
C3_Witness ==
    /\ Returned
    /\ BuiltIn("memory")
    /\ call.usage = MemoryLow
    /\ ret.status = "UNDERFLOW"

InCall == epc \in {"loop", "sleep", "log", "returned", "raised"}

HasReturned == epc = "returned"

\* the endpoint of that call
CallEndpoint == config.endpoints[IF HasReturned THEN eidx - 1 ELSE eidx]

\* the result the call returned
Returned_result == api_results[Len(api_results)]

Requests == {i \in DOMAIN call_log : call_log[i].event = "request"}

Sleeps == {i \in DOMAIN call_log : call_log[i].event = "sleep"}

\* the i-th thing the call did was a request answered with the expected status
GotExpected(i) ==
    /\ i \in Requests
    /\ call_log[i].outcome.kind = "response"
    /\ call_log[i].outcome.status_code = CallEndpoint.expected_status

FailedRequest(i) == i \in Requests /\ ~GotExpected(i)

\* how many requests the call had made when it did its i-th thing
RequestsUpTo(i) == Cardinality({j \in Requests : j <= i})

\* C1: check_endpoint makes at most `retries` attempts, none after the first
\* whose status is the expected one, and returns success=True iff some attempt
\* returned the expected status.
C1_BoundedAttempts ==
    InCall =>
        /\ Cardinality(Requests) <= config.retries
        /\ \A i \in Requests : GotExpected(i) => i = Len(call_log)
        /\ HasReturned => (Returned_result.success <=> \E i \in Requests : GotExpected(i))

\* a call succeeded at its second attempt
C1_Witness ==
    /\ HasReturned
    /\ Returned_result.success
    /\ Cardinality(Requests) = 2
    /\ FailedRequest(1)

\* where the sleeps of a call are: after a failed attempt that is not the last
\* allowed one, and after every such attempt
SleepPlacement ==
    /\ \A i \in Sleeps :
         /\ i > 1
         /\ FailedRequest(i - 1)
         /\ RequestsUpTo(i) < config.retries
    /\ \A i \in Requests :
         FailedRequest(i) /\ RequestsUpTo(i) < config.retries
             => \/ i = Len(call_log) /\ epc = "sleep"
                \/ i < Len(call_log) /\ (i + 1) \in Sleeps

\* C9, as stated: a sleep follows every failed attempt except the last allowed
\* one and never a successful one; a call that ends after k attempts has slept
\* exactly k - 1 times.
C9_SleepsAsClaimed ==
    InCall =>
        /\ SleepPlacement
        /\ HasReturned => Cardinality(Sleeps) = Cardinality(Requests) - 1

\* C9, amended: the same, for a call that made at least one attempt; with
\* retries = 0 the call makes no attempt and does not sleep.
C9_SleepsBetweenAttempts ==
    InCall =>
        /\ SleepPlacement
        /\ HasReturned /\ Cardinality(Requests) >= 1
               => Cardinality(Sleeps) = Cardinality(Requests) - 1
        /\ HasReturned /\ Cardinality(Requests) = 0 => Cardinality(Sleeps) = 0

\* a call used up all its attempts, two or more, and slept after all but the last
C9_Witness ==
    /\ HasReturned
    /\ config.retries >= 2
    /\ Cardinality(Requests) = config.retries
    /\ \A i \in Requests : FailedRequest(i)
    /\ Cardinality(Sleeps) = config.retries - 1
    /\ call_log[Len(call_log)].event = "request"

\* the error text the claim gives for a failed attempt
Described(outcome) ==
    CASE outcome.kind = "Timeout" -> <<"Request timed out">>
      [] outcome.kind = "ConnectionError" -> <<"Connection error">>
      [] outcome.kind = "Exception" -> outcome.text
      [] outcome.kind = "response" -> <<"Unexpected status code: ", outcome.status_code>>

LastRequest == CHOOSE i \in Requests : \A j \in Requests : j <= i

\* C10: an attempt that raises never propagates out of check_endpoint; it
\* counts as a failed attempt and the loop goes on; when all `retries` >= 1
\* attempts fail the result has success=False and an error, not None, that
\* describes the last attempt.
C10_ExceptionsAreCaught ==
    /\ epc # "raised"
    /\ HasReturned =>
         \/ Cardinality(Requests) = config.retries
         \/ \E i \in Requests : GotExpected(i)
    /\ HasReturned /\ config.retries >= 1 /\ (\A i \in Requests : FailedRequest(i))
         => /\ Cardinality(Requests) = config.retries
            /\ Returned_result.success = FALSE
            /\ Returned_result.error # NoError
            /\ Returned_result.error = Described(call_log[LastRequest].outcome)

\* a call failed by a timeout and then by another exception, whose text it reports
C10_Witness ==
    /\ HasReturned
    /\ Cardinality(Requests) = 2
    /\ call_log[1].outcome.kind = "Timeout"
    /\ call_log[LastRequest].outcome.kind = "Exception"
    /\ Returned_result.success = FALSE
    /\ Returned_result.error = <<"Invalid URL">>

(***************************************************************************)
(* Properties of main and of the monitoring cycle.                         *)
(***************************************************************************)
\* a cycle has completed and none has started since
CycleCompleted ==
    /\ cycle_log # <<>>
    /\ cycle_log[Len(cycle_log)].line = "Completed"

\* a report was written for a container, with a status for each resource
Reported(pod_name, container_name) ==
    \E i \in DOMAIN llm_log :
        /\ llm_log[i].pod = pod_name
        /\ llm_log[i].container = container_name
        /\ llm_log[i].analysis.cpu.status \in {"OVERFLOW", "UNDERFLOW", "NORMAL"}
        /\ llm_log[i].analysis.memory.status \in {"OVERFLOW", "UNDERFLOW", "NORMAL"}

\* C2: by the time a monitoring cycle completes, every container for which it
\* obtained metrics has been classified (a status per resource) and a status
\* report emitted for it.
C2_CycleAnalyzesMetrics ==
    CycleCompleted =>
        \A p \in DOMAIN metrics : \A c \in DOMAIN metrics[p].containers :
            Reported(metrics[p].name, metrics[p].containers[c].name)

\* C4: the first cycle runs at startup, before anything is scheduled or waited
\* for; every later cycle starts no sooner than one interval after the cycle
\* before it completed, and is started as soon as main finds it due; a cycle
\* starts only when the one before has completed.
C4_SequentialCycles ==
    /\ cycle_log = <<>> => now = 0 /\ mpc = "first_cycle" /\ next_run = 0 - 1
    /\ cycle_log # <<>> => cycle_log[1] = [line |-> "Starting", at |-> 0]
    /\ \A i \in DOMAIN cycle_log :
         /\ cycle_log[i].line = IF i % 2 = 1 THEN "Starting" ELSE "Completed"
         /\ i > 1 => cycle_log[i].at >= cycle_log[i - 1].at
         /\ i > 1 /\ i % 2 = 1 => cycle_log[i].at >= cycle_log[i - 1].at + config.interval
    /\ cpc # "idle" <=> (cycle_log # <<>> /\ ~CycleCompleted)
    /\ mpc = "sleep" => now < next_run

\* a second cycle ran two seconds after a first one that took a second
C4_Witness ==
    /\ config.interval = 2
    /\ Len(cycle_log) = 4
    /\ cycle_log[2].at = 1
    /\ cycle_log[3].at = 3

(***************************************************************************)
(* Properties of get_resource_metrics and of the mock metrics.             *)
(***************************************************************************)
\* mock metrics made for a list of pods: an entry per pod, in order, with a
\* cpu and a memory quantity for each container of the pod
MockFor(pod_list, value) ==
    /\ Len(value) = Len(pod_list)
    /\ \A i \in DOMAIN value :
         /\ value[i].name = pod_list[i].name
         /\ Len(value[i].containers) = Len(pod_list[i].containers)
         /\ \A j \in DOMAIN value[i].containers :
              /\ value[i].containers[j].name = pod_list[i].containers[j]
              /\ EndsWith(value[i].containers[j].cpu, <<"n">>)
              /\ EndsWith(value[i].containers[j].memory, <<"M", "i">>)

\* the call logged an exception it caught while getting the actual metrics
ActualFailed ==
    \E i \in DOMAIN k8s_log :
        /\ k8s_log[i].line = "Error getting actual pod metrics"
        /\ k8s_log[i].error # None

\* the fallback failed: get_pods raised
FallbackFailed ==
    \E i \in DOMAIN k8s_log : k8s_log[i].line = "Error in get_resource_metrics"

\* what the claim says of every call but its last clause: the call never
\* raises; without a metrics API, or with a failed API call, it returns mock
\* metrics for the pods of get_pods, or [] when the fallback failed
FallbackAsClaimed ==
    /\ gpc \in {"start", "fallback", "mock", "returned"}
    /\ gpc = "returned" =>
         /\ returned.source \in {"actual", "mock", "error"}
         /\ (~monitor.metrics_api \/ ~api_succeeded) =>
              IF FallbackFailed
              THEN returned.source = "error" /\ returned.value = <<>>
              ELSE returned.source = "mock" /\ MockFor(mpods, returned.value)
         /\ returned.source = "error" => FallbackFailed /\ returned.value = <<>>

\* C11 as stated: get_resource_metrics never raises; when the metrics API call
\* fails or no metrics API is set it returns mock metrics for the pods of
\* get_pods (one entry per pod, one cpu/memory pair per container), or [] when
\* the fallback fails; and mock metrics are never returned when the metrics
\* API call succeeded.
C11_MockOnlyAfterFailedCall ==
    /\ FallbackAsClaimed
    /\ gpc = "returned" /\ returned.source = "mock" => ~api_succeeded

\* C11, amended: the same, but mock metrics are returned exactly when no
\* metrics API is set or an exception was caught in the API call or in the
\* processing of its response (and the fallback did not fail); a call whose
\* API call succeeded and whose response was processed returns the actual
\* metrics.
C11_MockAfterAnyActualFailure ==
    /\ FallbackAsClaimed
    /\ gpc = "returned" =>
         /\ returned.source = "actual" <=> (monitor.metrics_api /\ ~ActualFailed)
         /\ returned.source = "mock" <=>
              ((~monitor.metrics_api \/ ActualFailed) /\ ~FallbackFailed)
         /\ returned.source = "actual" => api_succeeded
         /\ ~api_succeeded /\ monitor.metrics_api => ActualFailed

\* the API call succeeded, the processing of an item raised KeyError, and the
\* call returned mock metrics for two pods
C11_Witness ==
    /\ gpc = "returned"
    /\ api_succeeded
    /\ returned.source = "mock"
    /\ Len(returned.value) = 2
    /\ \E i \in DOMAIN k8s_log : k8s_log[i].error = "KeyError"

\* what the comment above each scenario (lines 79-87) says of it
Commented ==
    <<[cpu |-> "OVERFLOW", memory |-> "NORMAL"],
      [cpu |-> "NORMAL", memory |-> "OVERFLOW"],
      [cpu |-> "UNDERFLOW", memory |-> "UNDERFLOW"],
      [cpu |-> "NORMAL", memory |-> "NORMAL"],
      [cpu |-> "OVERFLOW", memory |-> "OVERFLOW"]>>

\* the statuses analyze_resource_usage gives a container
ClassifiedAs(container_metrics, statuses) ==
    LET outcome == AnalyzeContainer(container_metrics)
    IN  /\ outcome.exc = None
        /\ outcome.value.cpu.status = statuses.cpu
        /\ outcome.value.memory.status = statuses.memory

\* C12: every container of the mock metrics generated so far is classified,
\* with the built-in thresholds, as the comment of the scenario picked for its
\* pod says.
C12_MockClassifiedAsCommented ==
    \A i \in DOMAIN mock_metrics :
        \A j \in DOMAIN mock_metrics[i].containers :
            ClassifiedAs(mock_metrics[i].containers[j], Commented[scenario_log[i]])

(***************************************************************************)
(* Properties of the handling of a failing endpoint.                       *)
(***************************************************************************)
\* the steps done in the iteration of the i-th pod
StepsOf(i) == {k \in DOMAIN ops : ops[k].iteration = i}

\* the pods whose iteration is over
Handled == IF fpc \in {"pods", "done"} THEN 1..(podidx - 1) ELSE {}

\* a log file was written for a container of a pod
Saved(pod_name, container) ==
    \E k \in DOMAIN ops :
        ops[k].op = "write" /\ ops[k].pod = pod_name /\ ops[k].container = container

\* C13: for a failing endpoint, the iteration of a Running pod saves a log file
\* for each of its containers; the iteration of a pod in another phase logs a
\* warning and does nothing else (no get_resource_metrics, no get_pod_logs, no
\* file), and no metrics line, log retrieval or file of any iteration is for
\* that pod.  Nothing is done for an endpoint that succeeded.
C13_LogsOfRunningPodsOnly ==
    /\ fresult.success => ops = <<>>
    /\ \A i \in Handled :
         IF fpods[i].phase = "Running"
         THEN \A j \in DOMAIN fpods[i].containers :
                  Saved(fpods[i].name, fpods[i].containers[j])
         ELSE /\ \E k \in DOMAIN ops :
                   /\ StepsOf(i) = {k}
                   /\ ops[k].op = "warning"
                   /\ ops[k].pod = fpods[i].name
              /\ \A k \in DOMAIN ops :
                   ops[k].pod = fpods[i].name => ops[k].op = "warning"

\* a failing endpoint handled to the end with a pod that is Pending and a
\* Running pod of two containers, whose metrics were logged and whose two log
\* files were written while the fetched metrics held the Pending pod as well
C13_Witness ==
    /\ fpc = "done"
    /\ ~fresult.success
    /\ Len(fpods) = 2
    /\ fpods[1].phase = "Pending"
    /\ fpods[2].phase = "Running"
    /\ Len(fpods[2].containers) = 2
    /\ Cardinality({k \in DOMAIN ops : ops[k].op = "write"}) = 2
    /\ Cardinality({k \in DOMAIN ops : ops[k].op = "log_metrics"}) = 2
    /\ \E k \in DOMAIN ops : ops[k].content = "Error retrieving logs"

====
